---------------------------- MODULE Spec2Model ----------------------------
(***************************************************************************)
(* A model of modwt.py: MODWTPeriodExtractor (__init__, _pad_sequence,     *)
(* extract, plot_spectrum) as main.py drives it.                           *)
(*                                                                         *)
(* Spec       one extractor; extract on a series, then plot_spectrum       *)
(* SpecCalls  several extract calls on one extractor, an earlier one kept  *)
(* SpecPad    _pad_sequence on its own, for any (data, max_level)          *)
(* SpecDepth  the part of extract that reads the length only: the depth    *)
(*            and the periods kept, for lengths past the level cap         *)
(*                                                                         *)
(* Numbers.  The samples are integers.  The wavelet's filter taps are      *)
(* integers times 1/sqrt(2) ("haar": lo = (1,1)/sqrt 2, hi = (-1,1)/sqrt 2)*)
(* so the level-j coefficients are integers divided by sqrt(2)^j and every *)
(* variance is an exact rational, kept as [num, den] with den > 0 and      *)
(* compared by cross-multiplication.  The default 'db4' has irrational     *)
(* taps and is not among the wavelets modelled.                            *)
(***************************************************************************)
EXTENDS Integers, Sequences, FiniteSets

\* ------------------------------------------------------------------ bounds
MaxVal == 2          \* _pad_sequence alone: samples are drawn from 0..MaxVal
MaxLen == 8          \* extract is called on series of length 0..MaxLen
MaxCeil == 8         \* max_allowed_period is None or in 1..MaxCeil
MaxTopK == 3         \* the extractor is built with top_k in 1..MaxTopK
MaxHistLen == 4      \* series length in the call-history specification
MaxHistCeil == 1     \* ceilings in the call-history specification
MaxPadLen == 5       \* _pad_sequence alone: input length 0..MaxPadLen
MaxPadLevel == 3     \* _pad_sequence alone: max_level 0..MaxPadLevel
MaxDepthLen == 8200  \* depth computation alone: lengths 2..MaxDepthLen

\* ------------------------------------------------------- program constants
LevelCap == 12       \* min(12, max_level)
MainCeil == 720      \* main.py: 'max_p': 720

NoneVal == << >>     \* Python's None; an optional value v is <<v>>
IsNone(x) == x = NoneVal
Some(v) == << v >>
Val(x) == x[1]

Min(a, b) == IF a < b THEN a ELSE b
\* a sequence given as a function, as the tuple of its values (the same value)
AsTuple(s) == SubSeq(s, 1, Len(s))
Pow2(n) == 2 ^ n

RECURSIVE SeqsOfLen(_, _)
SeqsOfLen(S, n) ==
  IF n = 0 THEN { << >> }
  ELSE { Append(s, v) : s \in SeqsOfLen(S, n - 1), v \in S }

SeqsUpTo(S, n) == UNION { SeqsOfLen(S, k) : k \in 0 .. n }

\* the samples of the series extract is called on
Samples == { 0, 1 }
DefaultName == "Series"
Names == { DefaultName, "ETTh1.csv" }
SavePaths == { NoneVal, Some("results/ETTh1_spectrum.png") }
Ceilings(m) == { NoneVal } \cup { Some(c) : c \in 1 .. m }

\* ------------------------------------------------------------- the wavelet
\* pywt.wavelist() restricted to the wavelets whose taps are integers/sqrt(2)
Wavelist == { "haar" }
DecLo(w) == << 1, 1 >>
DecHi(w) == << -1, 1 >>
\* the square of the common denominator of the taps
TapDen2(w) == 2

\* ----------------------------------------------------------- _pad_sequence
CeilDiv(a, b) == (a + b - 1) \div b

\* np.pad(data, (0, pad_width), 'reflect'): the extension mirrors about the
\* last sample without repeating it and, when pad_width > n - 1, goes on
\* reflecting about the two ends in turn (period 2(n-1)); a one-sample input
\* is extended by its only value.
\* the 'symmetric' mode instead: the mirror repeats the last sample
NpPadSymmetric(data, pad_width) ==
  LET n == Len(data)
      At(i) == LET m == (i - 1) % (2 * n)
               IN  IF m < n THEN data[m + 1] ELSE data[2 * n - m]
  IN  AsTuple([ i \in 1 .. (n + pad_width) |-> At(i) ])

NpPadReflect(data, pad_width) ==
  LET n == Len(data)
      period == 2 * (n - 1)
      At(i) == IF n = 1 THEN data[1]
               ELSE LET m == (i - 1) % period
                    IN  IF m < n THEN data[m + 1] ELSE data[period - m + 1]
  IN  AsTuple([ i \in 1 .. (n + pad_width) |-> At(i) ])

\* the next multiple even when n is one already
TargetLenNextMultiple(n, max_level) ==
  (n \div Pow2(max_level) + 1) * Pow2(max_level)

\* line 27: int(np.ceil(n / (2**max_level))) * (2**max_level)
TargetLen(n, max_level) == CeilDiv(n, Pow2(max_level)) * Pow2(max_level)

\* np.pad cannot extend an empty axis by reflection (ValueError)
PadRaises(data, max_level) ==
  Len(data) = 0 /\ TargetLen(Len(data), max_level) > Len(data)

PadSequence(data, max_level) ==
  LET n == Len(data)
      target_len == TargetLen(n, max_level)
  IN  [ data |-> IF target_len > n
                 THEN NpPadReflect(data, target_len - n)
                 ELSE data,
        n |-> n ]

\* ------------------------------------------------------------------ extract
RECURSIVE FloorLog2(_)
FloorLog2(n) == IF n < 2 THEN 0 ELSE 1 + FloorLog2(n \div 2)

\* a cap of 8 levels instead
DecomposeLevelCap8(L) == Min(8, FloorLog2(L))
\* lines 43-46: min(12, int(np.floor(np.log2(L))))
DecomposeLevel(L) == Min(LevelCap, FloorLog2(L))

RECURSIVE SumTo(_, _)
SumTo(f, n) == IF n = 0 THEN 0 ELSE f[n] + SumTo(f, n - 1)
SumSeq(s) == SumTo(s, Len(s))

\* circular convolution of x with the taps f dilated by step (the filter bank
\* of the stationary transform; the offset pywt gives its output is not
\* modelled)
Conv(x, f, step) ==
  LET P == Len(x)
  IN  AsTuple([ i \in 1 .. P |->
          SumSeq([ k \in 1 .. Len(f) |->
                     f[k] * x[((i - 1 - step * (k - 1)) % P) + 1] ]) ])

RECURSIVE ApproxLevel(_, _, _)
ApproxLevel(x, w, j) ==
  IF j = 0 THEN x ELSE Conv(ApproxLevel(x, w, j - 1), DecLo(w), Pow2(j - 1))

DetailLevel(x, w, j) == Conv(ApproxLevel(x, w, j - 1), DecHi(w), Pow2(j - 1))

\* pywt.swt refuses an odd length and a level below 1 (ValueError)
SwtRaises(x, level) == Len(x) % 2 = 1 \/ level < 1

\* pywt.swt: [(cA_n, cD_n), ..., (cA_1, cD_1)], the deepest level first
Swt(x, w, level) ==
  AsTuple([ i \in 1 .. level |->
      << ApproxLevel(x, w, level - i + 1),
         DetailLevel(x, w, level - i + 1) >> ])

\* Python's seq[-j]
FromEnd(s, j) == s[Len(s) - j + 1]
\* indexed from the front instead: coeffs[j - 1]
FromFront(s, j) == s[j]
\* line 66: coeffs[-j]
CoeffAt(coeffs, j) == FromEnd(coeffs, j)

\* Python's seq[:k], k >= 0
Prefix(s, k) == SubSeq(s, 1, Min(k, Len(s)))

SumSq(x) == SumSeq([ i \in 1 .. Len(x) |-> x[i] * x[i] ])

\* np.var (ddof = 0) of the integers x, each standing for x[i] / sqrt(den2):
\* mean(|x - mean|^2) = (n * sum x^2 - (sum x)^2) / (n^2 * den2)
\* the unbiased estimator (ddof = 1) instead
NpVarDdof1(x, den2) ==
  LET n == Len(x)
  IN  [ num |-> n * SumSq(x) - SumSeq(x) * SumSeq(x),
        den |-> n * (n - 1) * den2 ]
NpVar(x, den2) ==
  LET n == Len(x)
  IN  [ num |-> n * SumSq(x) - SumSeq(x) * SumSeq(x), den |-> n * n * den2 ]

Less(a, b) == a.num * b.den < b.num * a.den
Same(a, b) == a.num * b.den = b.num * a.den

\* the level compared with the ceiling instead of the period
SkipByLevel(j, period, M) == ~IsNone(M) /\ j > Val(M)
\* line 62: max_allowed_period is not None and period > max_allowed_period
Skip(j, period, M) == ~IsNone(M) /\ period > Val(M)

\* the levels the loop of extract does not skip, in loop order
SurvivingLevels(decompose_level, M) ==
  SelectSeq([ j \in 1 .. decompose_level |-> j ],
            LAMBDA j : ~Skip(j, Pow2(j), M))

\* (period, energy) of level j: lines 58, 66-68
Candidate(coeffs, w, j, original_len) ==
  LET cD_j == Prefix(CoeffAt(coeffs, j)[2], original_len)
  IN  << Pow2(j), NpVar(cD_j, TapDen2(w) ^ j) >>

\* the loop of lines 57-70 over the levels lv it does not skip
Candidates(coeffs, w, lv, original_len) ==
  AsTuple([ i \in 1 .. Len(lv) |-> Candidate(coeffs, w, lv[i], original_len) ])

\* sorted(candidates, key = energy, reverse = True): stable, so candidates of
\* equal energy keep their order
RECURSIVE InsertDesc(_, _)
InsertDesc(c, s) ==
  IF s = << >> THEN << c >>
  ELSE IF Less(Head(s)[2], c[2]) THEN << c >> \o s
       ELSE << Head(s) >> \o InsertDesc(c, Tail(s))

RECURSIVE SortedFrom(_, _)
SortedFrom(cands, n) ==
  IF n = 0 THEN << >> ELSE InsertDesc(cands[n], SortedFrom(cands, n - 1))

Reverse(s) == AsTuple([ i \in 1 .. Len(s) |-> s[Len(s) - i + 1] ])

\* a sort ascending by energy, then reversed: ties come out in reverse order
SortedByEnergyReversedAscending(cands) ==
  Reverse(SortedFrom(Reverse(cands), Len(cands)))
SortedByEnergy(cands) == SortedFrom(cands, Len(cands))

\* ------------------------------------------------------------------- state
VARIABLES
  wavelet_name,   \* self.wavelet_name
  top_k,          \* self.top_k
  pc,             \* "idle" | "returned" | "raised" | "plotted"
  call,           \* the arguments of the extract call last made
  data_series,    \* the caller's array, as it is after the call
  err,            \* the exception the call raised, "" when none
  steps,          \* what the call did: padding, transform, levels measured
  results,        \* the dictionary extract returned
  plot,           \* what plot_spectrum drew and saved
  first,          \* an earlier call and its outcome, kept for comparison
  pad,            \* _pad_sequence on its own: input and output
  depth           \* the depth computation on its own: length and outcome

vars == << wavelet_name, top_k, pc, call, data_series, err, steps, results,
           plot, first, pad, depth >>

NoCall == [ data |-> << >>, name |-> "", M |-> NoneVal ]
NoSteps == [ padded |-> FALSE, transformed |-> FALSE, level |-> 0,
             ncoeffs |-> 0, measured |-> {}, printed |-> << >> ]
NoResults == [ all_periods |-> << >>, all_energies |-> << >>, top_k |-> << >> ]
NoPlot == [ bars |-> << >>, highlighted |-> {}, title |-> << >>,
            saved |-> NoneVal ]
NoFirst == [ kept |-> FALSE, data |-> << >>, M |-> NoneVal, pc |-> "idle",
             err |-> "", results |-> NoResults, top_k |-> 0,
             wavelet_name |-> "" ]
NoPad == [ pc |-> "off", data |-> << >>, max_level |-> 0, out |-> << >>,
           n |-> 0 ]
NoDepth == [ pc |-> "off", L |-> 0, M |-> NoneVal, level |-> 0,
             periods |-> << >>, pad_width |-> 0 ]

\* __init__: the wavelet name is checked against pywt.wavelist()
InitExtractor ==
  /\ wavelet_name \in Wavelist
  /\ top_k \in 1 .. MaxTopK
  /\ pc = "idle"
  /\ call = NoCall
  /\ data_series = << >>
  /\ err = ""
  /\ steps = NoSteps
  /\ results = NoResults
  /\ plot = NoPlot
  /\ first = NoFirst

Init == InitExtractor /\ pad = NoPad /\ depth = NoDepth

Periods(cands) == AsTuple([ i \in 1 .. Len(cands) |-> cands[i][1] ])
Energies(cands) == AsTuple([ i \in 1 .. Len(cands) |-> cands[i][2] ])

\* what extract returns for (data, name, M) on an extractor (w, k), and what
\* it did on the way
Outcome(w, k, data, name, M) ==
  LET L == Len(data)
  IN
  IF L = 0
  THEN \* line 43: np.log2(0) is -inf, and int(-inf) raises OverflowError
       [ pc |-> "raised", err |-> "OverflowError", steps |-> NoSteps,
         results |-> NoResults ]
  ELSE
  LET decompose_level == DecomposeLevel(L)
      p == PadSequence(data, decompose_level)
  IN
  IF SwtRaises(p.data, decompose_level)
  THEN \* line 52
       [ pc |-> "raised", err |-> "ValueError",
         steps |-> [ NoSteps EXCEPT !.padded = TRUE,
                                    !.level = decompose_level ],
         results |-> NoResults ]
  ELSE
  LET coeffs == Swt(p.data, w, decompose_level)
      lv == SurvivingLevels(decompose_level, M)
      candidates == Candidates(coeffs, w, lv, p.n)
      sorted_candidates == SortedByEnergy(candidates)
      top_k_periods == Prefix(sorted_candidates, k)
  IN  [ pc |-> "returned", err |-> "",
        steps |-> [ padded |-> TRUE, transformed |-> TRUE,
                    level |-> decompose_level, ncoeffs |-> Len(coeffs),
                    measured |-> { lv[i] : i \in 1 .. Len(lv) },
                    printed |-> << name, M, k, Periods(top_k_periods) >> ],
        results |-> [ all_periods |-> Periods(candidates),
                      all_energies |-> Energies(candidates),
                      top_k |-> top_k_periods ] ]

\* extract, but for the extractor's own fields
ExtractBody(data, name, M) ==
  /\ pc = "idle"
  /\ \E o \in { Outcome(wavelet_name, top_k, data, name, M) } :
       /\ pc' = o.pc
       /\ err' = o.err
       /\ steps' = o.steps
       /\ results' = o.results
  /\ call' = [ data |-> data, name |-> name, M |-> M ]
  /\ data_series' = data
  /\ UNCHANGED << plot, first, pad, depth >>

\* a slip: the slice bound clamped to the candidates found and stored back
ExtractClampsTopK(data, name, M) ==
  /\ ExtractBody(data, name, M)
  /\ top_k' = Min(top_k, Len(results'.all_periods) + 1)
  /\ UNCHANGED wavelet_name

Extract(data, name, M) ==
  /\ ExtractBody(data, name, M)
  /\ UNCHANGED << wavelet_name, top_k >>

\* np.argsort(energies): a permutation of the bar indices that puts the
\* energies in ascending order; the default sort is not stable, so bars of
\* equal energy come in any order
Perms(n) ==
  { f \in [ 1 .. n -> 1 .. n ] : \A i, j \in 1 .. n : i # j => f[i] # f[j] }

Argsorts(energies) ==
  { f \in Perms(Len(energies)) :
      \A i \in 1 .. Len(energies) - 1 :
        ~Less(energies[f[i + 1]], energies[f[i]]) }

PlotSpectrum(save_path) ==
  /\ pc = "returned"
  /\ \E order \in Argsorts(results.all_energies) :
       LET periods == results.all_periods
           energies == results.all_energies
           sorted_indices == Prefix(Reverse(order), top_k)
       IN  plot' = [ bars |-> AsTuple([ i \in 1 .. Len(periods) |->
                                          << periods[i], energies[i] >> ]),
                     highlighted |-> { sorted_indices[i] :
                                         i \in 1 .. Len(sorted_indices) },
                     title |-> Periods(results.top_k),
                     saved |-> save_path ]
  /\ pc' = "plotted"
  /\ UNCHANGED << wavelet_name, top_k, call, data_series, err, steps,
                  results, first, pad, depth >>

\* the caller goes on to its next series
NextCall ==
  /\ pc \in { "returned", "raised", "plotted" }
  /\ pc' = "idle"
  /\ call' = NoCall
  /\ data_series' = << >>
  /\ err' = ""
  /\ steps' = NoSteps
  /\ results' = NoResults
  /\ plot' = NoPlot
  /\ UNCHANGED << wavelet_name, top_k, first, pad, depth >>

Next ==
  \/ /\ pc = "idle"
     /\ \E data \in SeqsUpTo(Samples, MaxLen), M \in Ceilings(MaxCeil) :
          Extract(data, DefaultName, M)
  \/ \E save_path \in SavePaths : PlotSpectrum(save_path)
  \/ NextCall

Spec == Init /\ [][Next]_vars

\* ------------------------------------------------- a history of several calls
\* the observer keeps the call just made (its series, its ceiling and how it
\* ended, not its label), to compare a later one with it
Keep ==
  /\ pc \in { "returned", "raised" }
  /\ ~first.kept
  /\ first' = [ kept |-> TRUE, data |-> call.data, M |-> call.M, pc |-> pc,
                err |-> err, results |-> results, top_k |-> top_k,
                wavelet_name |-> wavelet_name ]
  /\ UNCHANGED << wavelet_name, top_k, pc, call, data_series, err, steps,
                  results, plot, pad, depth >>

NextCalls ==
  \/ /\ pc = "idle"
     /\ \E data \in SeqsUpTo(Samples, MaxHistLen), name \in Names,
           M \in Ceilings(MaxHistCeil) : Extract(data, name, M)
  \/ Keep
  \/ NextCall

SpecCalls == Init /\ [][NextCalls]_vars

\* ------------------------------------------------- _pad_sequence on its own
Ramp(n) == AsTuple([ i \in 1 .. n |-> i ])

\* lengths about the level cap: 2^12 and 2 * 2^12, one less, one more
CapLens ==
  { c * Pow2(LevelCap) + d : c \in { 1, 2 }, d \in { -1, 0, 1 } }

PadCalled(data, max_level) ==
  [ pc |-> "called", data |-> data, max_level |-> max_level, out |-> << >>,
    n |-> 0 ]

InitPad ==
  /\ wavelet_name \in Wavelist
  /\ top_k = 1
  /\ pc = "off"
  /\ call = NoCall
  /\ data_series = << >>
  /\ err = ""
  /\ steps = NoSteps
  /\ results = NoResults
  /\ plot = NoPlot
  /\ first = NoFirst
  /\ depth = NoDepth
  /\ pad \in { PadCalled(d, J) : d \in SeqsUpTo(0 .. MaxVal, MaxPadLen),
                                 J \in 0 .. MaxPadLevel }
            \cup { PadCalled(Ramp(n), DecomposeLevel(n)) : n \in CapLens }

PadReturn ==
  /\ pad.pc = "called"
  /\ IF PadRaises(pad.data, pad.max_level)
     THEN pad' = [ pad EXCEPT !.pc = "raised" ]
     ELSE \E p \in { PadSequence(pad.data, pad.max_level) } :
            pad' = [ pad EXCEPT !.pc = "done", !.out = p.data, !.n = p.n ]
  /\ UNCHANGED << wavelet_name, top_k, pc, call, data_series, err, steps,
                  results, plot, first, depth >>

SpecPad == InitPad /\ [][PadReturn]_vars

\* --------------------------------------- the depth and the periods, by length
\* lines 42-49, 57-63 and 88 of extract read the series' length only
InitDepth ==
  /\ wavelet_name \in Wavelist
  /\ top_k = 1
  /\ pc = "off"
  /\ call = NoCall
  /\ data_series = << >>
  /\ err = ""
  /\ steps = NoSteps
  /\ results = NoResults
  /\ plot = NoPlot
  /\ first = NoFirst
  /\ pad = NoPad
  /\ depth \in { [ NoDepth EXCEPT !.pc = "called", !.L = n, !.M = m ] :
                   n \in 2 .. MaxDepthLen,
                   m \in { NoneVal, Some(MainCeil) } }

DepthReturn ==
  /\ depth.pc = "called"
  /\ LET decompose_level == DecomposeLevel(depth.L)
         lv == SurvivingLevels(decompose_level, depth.M)
     IN  depth' = [ depth EXCEPT
                      !.pc = "done",
                      !.level = decompose_level,
                      !.periods = AsTuple([ i \in 1 .. Len(lv) |->
                                              Pow2(lv[i]) ]),
                      !.pad_width = TargetLen(depth.L, decompose_level)
                                      - depth.L ]
  /\ UNCHANGED << wavelet_name, top_k, pc, call, data_series, err, steps,
                  results, plot, first, pad >>

SpecDepth == InitDepth /\ [][DepthReturn]_vars

\* ------------------------------------------------------------------ claims
Done == pc \in { "returned", "plotted" }
Ceiling == Val(call.M)
Allowed(period) == IsNone(call.M) \/ period <= Ceiling
SeqSet(s) == { s[i] : i \in 1 .. Len(s) }
TopPeriods == SeqSet(Periods(results.top_k))

\* the level-j detail coefficients of the call's series, cut to its length
TruncDetail(j) ==
  Prefix(DetailLevel(PadSequence(call.data, steps.level).data,
                     wavelet_name, j),
         Len(call.data))

\* the energy level j has, whether or not the call measured it
LevelEnergy(j) == NpVar(TruncDetail(j), TapDen2(wavelet_name) ^ j)

\* n^2 times the sum of the squared deviations of x from its mean
Dev2(x) ==
  SumSeq([ i \in 1 .. Len(x) |->
             (Len(x) * x[i] - SumSeq(x)) * (Len(x) * x[i] - SumSeq(x)) ])

\* C1: with max_allowed_period = M set, every period of all_periods and of
\* top_k is at most M, and a level whose period 2^j exceeds M is in neither.
C1_CeilingRespected ==
  (Done /\ ~IsNone(call.M)) =>
    /\ \A i \in 1 .. Len(results.all_periods) :
         results.all_periods[i] <= Ceiling
    /\ \A i \in 1 .. Len(results.top_k) : results.top_k[i][1] <= Ceiling
    /\ \A j \in 1 .. steps.level :
         Pow2(j) > Ceiling =>
           /\ Pow2(j) \notin SeqSet(results.all_periods)
           /\ Pow2(j) \notin TopPeriods

\* a level above the ceiling has more energy than every candidate returned
C1_Witness ==
  /\ pc = "returned"
  /\ ~IsNone(call.M)
  /\ results.all_periods # << >>
  /\ \E j \in 1 .. steps.level :
       /\ Pow2(j) > Ceiling
       /\ \A i \in 1 .. Len(results.all_energies) :
            Less(results.all_energies[i], LevelEnergy(j))

\* C2: top_k has min(top_k, number of candidates) entries, all of them
\* candidates, in descending energy with the smaller period first among equal
\* energies, and no candidate left out ranks before one that is in.
C2_TopK ==
  Done =>
    LET t == results.top_k
        ps == results.all_periods
        es == results.all_energies
        Before(p1, e1, p2, e2) ==
          Less(e2, e1) \/ (Same(e1, e2) /\ p1 < p2)
    IN  /\ Len(t) = Min(top_k, Len(ps))
        /\ \A i \in 1 .. Len(t) :
             \E m \in 1 .. Len(ps) : t[i] = << ps[m], es[m] >>
        /\ \A i \in 1 .. Len(t) - 1 :
             Before(t[i][1], t[i][2], t[i + 1][1], t[i + 1][2])
        /\ \A m \in 1 .. Len(ps) :
             ps[m] \notin TopPeriods =>
               \A i \in 1 .. Len(t) : Before(t[i][1], t[i][2], ps[m], es[m])

\* more candidates than top_k, and the last one taken ties, at an energy
\* above 0, with one left out
C2_Witness ==
  /\ pc = "returned"
  /\ Len(results.all_periods) > top_k
  /\ \E a, b \in 1 .. Len(results.all_periods) :
       /\ a < b
       /\ results.all_energies[a].num > 0
       /\ Same(results.all_energies[a], results.all_energies[b])
       /\ results.all_periods[a] \in TopPeriods
       /\ results.all_periods[b] \notin TopPeriods

\* C3, as claimed: J = min(cap, floor(log2 N)) with cap 8 when no ceiling is
\* given and 12 when one is; no period above 256 without a ceiling.
C3_CapEightUnconstrained ==
  depth.pc = "done" =>
    LET cap == IF IsNone(depth.M) THEN 8 ELSE 12
        J == depth.level
    IN  /\ J <= cap
        /\ Pow2(J) <= depth.L
        /\ (J = cap \/ depth.L < Pow2(J + 1))
        /\ IsNone(depth.M) =>
             \A i \in 1 .. Len(depth.periods) : depth.periods[i] <= Pow2(8)

\* C3, amended: J = min(12, floor(log2 N)) with or without a ceiling; no
\* period above 2^12 = 4096.
C3_CapTwelveAlways ==
  depth.pc = "done" =>
    LET J == depth.level
    IN  /\ J <= 12
        /\ Pow2(J) <= depth.L
        /\ (J = 12 \/ depth.L < Pow2(J + 1))
        /\ \A i \in 1 .. Len(depth.periods) : depth.periods[i] <= Pow2(12)
        /\ IsNone(depth.M) => Len(depth.periods) = J

\* no ceiling, a series long enough for 13 levels, 12 levels taken
C3_Witness ==
  /\ depth.pc = "done"
  /\ IsNone(depth.M)
  /\ depth.L >= Pow2(13)
  /\ depth.level = 12
  /\ depth.periods[Len(depth.periods)] = Pow2(12)

\* C4, as claimed: each energy is the sum of squared deviations from the mean
\* of the level's coefficients, cut to N samples, divided by count - 1 (0 when
\* count <= 1), and is not negative.
C4_UnbiasedVariance ==
  Done =>
    \A i \in 1 .. Len(results.all_periods) :
      \E j \in 1 .. steps.level :
        /\ results.all_periods[i] = Pow2(j)
        /\ LET x == TruncDetail(j)
               n == Len(x)
               e == results.all_energies[i]
           IN  /\ e.num >= 0 /\ e.den > 0
               /\ IF n <= 1 THEN e.num = 0
                  ELSE e.num * (n * n * (n - 1) * Pow2(j)) = e.den * Dev2(x)

\* C4, amended: the divisor is count (the population variance); count is
\* N >= 2 in every result, and the energy is not negative.
C4_PopulationVariance ==
  Done =>
    \A i \in 1 .. Len(results.all_periods) :
      \E j \in 1 .. steps.level :
        /\ results.all_periods[i] = Pow2(j)
        /\ LET x == TruncDetail(j)
               n == Len(x)
               e == results.all_energies[i]
           IN  /\ e.num >= 0 /\ e.den > 0
               /\ n = Len(call.data) /\ n >= 2
               /\ e.num * (n * n * n * Pow2(j)) = e.den * Dev2(x)

\* a candidate of energy above 0 and an odd count
C4_Witness ==
  /\ pc = "returned"
  /\ Len(call.data) % 2 = 1
  /\ \E i \in 1 .. Len(results.all_energies) : results.all_energies[i].num > 0

\* C5: a call on fewer than 2 samples fails with InvalidSequenceError before
\* any padding or decomposition, and returns no candidates.
C5_InvalidSequenceError ==
  (pc # "idle" /\ Len(call.data) < 2) =>
    /\ pc = "raised"
    /\ err = "InvalidSequenceError"
    /\ ~steps.padded /\ ~steps.transformed
    /\ results = NoResults

\* C6: on one extractor, a call with the series and ceiling of an earlier call
\* ends as that one did, with the same results, whatever the label and the
\* calls in between; the extractor's fields and the caller's series are as
\* they were.
C6_Deterministic ==
  /\ pc # "idle" => data_series = call.data
  /\ first.kept =>
       /\ top_k = first.top_k
       /\ wavelet_name = first.wavelet_name
       /\ (pc \in { "returned", "raised" } /\ call.data = first.data
             /\ call.M = first.M) =>
            /\ pc = first.pc
            /\ err = first.err
            /\ results = first.results

\* the series and the ceiling of the kept call again, under a label of the
\* caller's, with two candidates returned
C6_Witness ==
  /\ first.kept
  /\ pc = "returned"
  /\ call.data = first.data
  /\ call.M = first.M
  /\ call.name # DefaultName
  /\ Len(results.top_k) >= 2

\* C7: for N >= 1 the padded length is the smallest multiple of 2^J that is
\* at least N, the original length N comes back with it, the first N samples
\* are the input, and an input whose length is a multiple of 2^J is unchanged.
C7_PadLength ==
  (pad.pc = "done" /\ Len(pad.data) >= 1) =>
    LET N == Len(pad.data)
        m == Pow2(pad.max_level)
    IN  /\ Len(pad.out) % m = 0
        /\ Len(pad.out) >= N
        /\ Len(pad.out) - N < m
        /\ pad.n = N
        /\ SubSeq(pad.out, 1, N) = pad.data
        /\ N % m = 0 => pad.out = pad.data

\* samples were appended
C7_Witness ==
  /\ pad.pc = "done"
  /\ Len(pad.data) >= 3
  /\ Len(pad.out) >= Len(pad.data) + 2
  /\ pad.max_level >= 2

\* C8: the bars plot_spectrum highlights are exactly those of the periods in
\* the result's top_k; the result is as it was; without a destination nothing
\* is saved.
C8_HighlightsTopK ==
  pc = "plotted" =>
    /\ { results.all_periods[i] : i \in plot.highlighted } = TopPeriods
    /\ plot.title = Periods(results.top_k)
    /\ plot.bars = [ i \in 1 .. Len(results.all_periods) |->
                       << results.all_periods[i], results.all_energies[i] >> ]

\* C9: all_periods and all_energies list, level by level from 1 to J, the
\* levels whose period 2^j the ceiling allows, each period with the energy of
\* its own level's coefficients cut to N samples; the transform gave J levels;
\* no skipped level was measured.
C9_AllCandidates ==
  Done =>
    LET ps == results.all_periods
        es == results.all_energies
        J == steps.level
    IN  /\ steps.ncoeffs = J
        /\ Len(ps) = Len(es)
        /\ \A i \in 1 .. Len(ps) - 1 : ps[i] < ps[i + 1]
        /\ SeqSet(ps) = { Pow2(j) : j \in { l \in 1 .. J : Allowed(Pow2(l)) } }
        /\ \A i \in 1 .. Len(ps) :
             \E j \in 1 .. J : ps[i] = Pow2(j) /\ es[i] = LevelEnergy(j)
        /\ steps.measured = { l \in 1 .. J : Allowed(Pow2(l)) }

\* three levels, the deepest cut by the ceiling, the other two of different
\* energies
C9_Witness ==
  /\ pc = "returned"
  /\ steps.level = 3
  /\ ~IsNone(call.M)
  /\ Len(results.all_periods) = 2
  /\ ~Same(results.all_energies[1], results.all_energies[2])
  /\ ~Same(LevelEnergy(1), LevelEnergy(3))

\* C10: the samples appended mirror the input about its last sample, which is
\* not repeated; with the level extract takes for N >= 2 samples at most N - 1
\* are appended, so the mirror stays inside the input; with 2^J > N the
\* padding still returns a sequence of the target length.
C10_Reflect ==
  pad.pc = "done" =>
    LET N == Len(pad.data)
        p == Len(pad.out) - N
    IN  /\ \A i \in 1 .. p : N - i >= 1 => pad.out[N + i] = pad.data[N - i]
        /\ (N >= 2 /\ pad.max_level = DecomposeLevel(N)) => p <= N - 1
        /\ (N >= 1 /\ Pow2(pad.max_level) > N) =>
             Len(pad.out) = Pow2(pad.max_level)

\* the level capped at 12, and as many samples appended as the cap allows
C10_Witness ==
  /\ pad.pc = "done"
  /\ pad.max_level = LevelCap
  /\ pad.max_level = DecomposeLevel(Len(pad.data))
  /\ Len(pad.out) - Len(pad.data) = Pow2(LevelCap) - 1
=============================================================================
